---------------------------- MODULE Spec2Model ----------------------------
(***************************************************************************)
(* Session bookkeeping of the /chat proxy (src/app.py, chat_endpoint).     *)
(*                                                                         *)
(* chat_endpoint is a coroutine run by a single event loop: the only point *)
(* at which it yields is `await agent.run(full_query)` (line 109).  A      *)
(* request is therefore two atomic steps: Receive (lines 51-109, up to the *)
(* call of agent.run) and Complete (the outcome of agent.run, lines        *)
(* 109-131).  Requests that have been received and are not yet complete    *)
(* overlap in time.                                                        *)
(*                                                                         *)
(* Objects (clients, agents) are identified by the order of their          *)
(* construction: handle h is the h-th object constructed; 0 is None.       *)
(* Texts the code inspects or composes (exception messages, HTTP details)  *)
(* are sequences of pieces, a piece being one character wherever the code  *)
(* looks inside the text; opaque texts (session ids, queries, model names, *)
(* agent results) are strings.                                             *)
(***************************************************************************)
EXTENDS Naturals, Sequences, FiniteSets

\* Bound of the model: the number of /chat requests received in a run.
MaxRequests == 2

\* Python's None, for the optional string fields.
None == "<None>"

\* Python's None, for object references (client, agent handles start at 1).
NoneRef == 0

\* Python's truthiness of an Optional[str]: None and "" are falsy.
Truthy(s) == s # None /\ s # ""

\* request.session_id: omitted, empty, a hex id the server can also draw,
\* and an id only a caller can make up.
SessionIdInputs == {None, "", "a1", "zz"}

\* str(os.urandom(8).hex()): the values the generator can return; nothing
\* checks them against the keys of the store.
GenIds == {"a1", "b2"}

\* request.query
Queries == {"login"}

\* request.model (default "gpt-4o")
Models == {"gpt-4o", "gpt-4o-mini"}

\* Values agent.run can return: a text, or an object that is not a text.
Results == {"Welcome", None}

\* str(result)
Str(v) == IF v = None THEN "None" ELSE v

\* The marker searched in the message of a failed run: "Recursion limit".
Marker == <<"R","e","c","u","r","s","i","o","n"," ","l","i","m","i","t">>

\* str(e) of the exceptions agent.run can raise: one that holds the marker
\* inside it, "E: Recursion limit hit", and one that misses it by a letter's
\* case, "recursion limit".
ErrorMessages ==
  { <<"E",":"," ">> \o Marker \o <<" ","h","i","t">>,
    <<"r","e","c","u","r","s","i","o","n"," ","l","i","m","i","t">> }

\* str(e) of the exceptions MCPClient.from_dict can raise: "bad url".
ConnectErrors == { <<"b","a","d"," ","u","r","l">> }

\* Python's `needle in text` on strings: needle occurs as a contiguous run.
Contains(text, needle) ==
  \E i \in 0..(Len(text) - Len(needle)) :
     \A j \in 1..Len(needle) : text[i + j] = needle[j]

\* Mutant of IsCeilingExceeded: the message must start with the marker.
IsCeilingExceededPrefix(error_msg) ==
  /\ Len(error_msg) >= Len(Marker)
  /\ SubSeq(error_msg, 1, Len(Marker)) = Marker

\* "Recursion limit" in error_msg
IsCeilingExceeded(error_msg) == Contains(error_msg, Marker)

\* The canned response of the recursion-limit branch.
CannedApology ==
  "I'm having trouble processing that request in time. Please try again or provide more details."

\* detail of the HTTPException raised when the API key is missing
ConfigDetail == <<"OPENAI_API_KEY not configured">>

\* f"Failed to connect to MCP: {str(e)}"
ConnectDetail(msg) == <<"Failed to connect to MCP: ">> \o msg

\* Mutant of RunFailureDetail: a fixed text replaces the error's message.
RunFailureDetailGeneric(error_msg) == <<"Internal Server Error">>

\* detail=str(e) of the HTTPException raised for any other failed run
RunFailureDetail(error_msg) == error_msg

\* Body of the response the framework sends for an exception that is not an
\* HTTPException (the constructions of lines 94-99 are outside every try).
UnhandledDetail == <<"Internal Server Error">>

VARIABLES
  active_sessions,  \* the session store: local_session_id -> record
  clients,          \* clients constructed so far: clients[h] is the id handle h was made for
  agents,           \* agents constructed so far: agents[h] = [client, model]
  requests,         \* the requests received so far, in the order they were received
  completions       \* indices of the requests whose agent run has ended, in that order

vars == <<active_sessions, clients, agents, requests, completions>>

\* A request being handled: its inputs, the handler's locals, and its outcome.
\* status 0: no response yet.
NewRequest(api_key, query, session_id, model) ==
  [ api_key |-> api_key, query |-> query, session_id |-> session_id, model |-> model,
    pc |-> "received",
    generated |-> None,         \* the value drawn from os.urandom, if any
    local_session_id |-> None,
    created |-> FALSE,          \* took the branch of line 61 and stored a record
    made_agent |-> FALSE,       \* took the branch of line 93 and constructed an agent
    agent |-> NoneRef,          \* the handler's local `agent`
    ran |-> FALSE,              \* agent.run was called
    run_calls |-> 0,            \* how many times this request called agent.run
    raised |-> FALSE,           \* agent.run raised an exception
    error_msg |-> << >>,        \* error_msg = str(e) of that exception
    status |-> 0, kind |-> "none",
    response |-> None, resp_session_id |-> None, detail |-> << >> ]

Init ==
  /\ active_sessions = [k \in {} |-> NoneRef]
  /\ clients = << >>
  /\ agents = << >>
  /\ requests = << >>
  /\ completions = << >>

\* Mutant of KeyMissing: the validation of the environment is left out.
KeyMissingNever(api_key) == FALSE

\* if not api_key
KeyMissing(api_key) == ~Truthy(api_key)

\* Mutant of LocalSessionId: the caller's identifier is ignored.
LocalSessionIdIgnoringCaller(session_id, generated) == generated

\* local_session_id = request.session_id or str(os.urandom(8).hex())
LocalSessionId(session_id, generated) ==
  IF Truthy(session_id) THEN session_id ELSE generated

\* os.urandom is evaluated only when request.session_id is falsy.
Draws(session_id) == IF Truthy(session_id) THEN {None} ELSE GenIds

\* Mutant of IsNewSession: the lookup is skipped and a session is always created.
IsNewSessionAlways(sessions, id) == TRUE

\* if local_session_id not in active_sessions
IsNewSession(sessions, id) == id \notin DOMAIN sessions

\* Mutant of NewRecord: the record is stored with its agent field already set.
NewRecordEagerAgent(client) == [client |-> client, history |-> << >>, agent |-> client]

\* {"client": client, "history": [], "agent": None}
NewRecord(client) == [client |-> client, history |-> << >>, agent |-> NoneRef]

\* Mutant of Store: the store is rebound to a dictionary holding the new
\* record alone.
StoreOnly(sessions, id, record) == [k \in {id} |-> record]

\* Mutant of Store: every key is made to refer to the one record object.
StoreAliased(sessions, id, record) == [k \in DOMAIN sessions \cup {id} |-> record]

\* active_sessions[local_session_id] = record
Store(sessions, id, record) ==
  [k \in DOMAIN sessions \cup {id} |-> IF k = id THEN record ELSE sessions[k]]

\* Mutant of Connected: the record is stored without the client it was made for.
ConnectedWithoutClient(sessions, id, client) == Store(sessions, id, NewRecord(NoneRef))

\* The try block of lines 72-83 when MCPClient.from_dict returns `client`.
Connected(sessions, id, client) == Store(sessions, id, NewRecord(client))

\* Mutant of ConnectFailed: the record is stored before the client is
\* constructed, and is left behind when the construction fails.
ConnectFailedPartial(sessions, id) == Store(sessions, id, NewRecord(NoneRef))

\* The try block of lines 72-85 when MCPClient.from_dict raises: the
\* assignment to active_sessions is never reached.
ConnectFailed(sessions, id) == sessions

\* Mutant of NeedsAgent: the agent is constructed on every request.
NeedsAgentAlways(session_data) == TRUE

\* if not session_data["agent"]
NeedsAgent(session_data) == session_data.agent = NoneRef

\* Mutant of NewAgent: request.model is ignored and the default model is used.
NewAgentDefaultModel(client, model) == [client |-> client, model |-> "gpt-4o"]

\* MCPAgent(llm=ChatOpenAI(model=request.model, ...), client=client, max_steps=40)
NewAgent(client, model) == [client |-> client, model |-> model]

\* Mutant of AppendTurn: the history is replaced by the turn (a lost update of
\* what was appended since the request was received).
AppendTurnOverwriting(history, query, result) ==
  << [role |-> "user", content |-> query],
     [role |-> "assistant", content |-> Str(result)] >>

\* Mutant of AppendTurn: the turn is inserted at the front of the history.
AppendTurnAtFront(history, query, result) ==
  << [role |-> "user", content |-> query],
     [role |-> "assistant", content |-> Str(result)] >> \o history

\* The two history.append calls of a turn that returned a result.
AppendTurn(history, query, result) ==
  history \o << [role |-> "user", content |-> query],
                [role |-> "assistant", content |-> Str(result)] >>

\* raise HTTPException(status_code=500, detail=...), or an unhandled exception
Fail(r, kind, detail) ==
  [r EXCEPT !.pc = "done", !.status = 500, !.kind = kind, !.detail = detail]

\* return ChatResponse(response=..., session_id=local_session_id)
Respond(r, kind, response) ==
  [r EXCEPT !.pc = "done", !.status = 200, !.kind = kind,
            !.response = response, !.resp_session_id = r.local_session_id]

\* Mutant of OnRunError: a failed run is tried once more before it is classified.
OnRunErrorRetry(r, error_msg) ==
  IF r.run_calls < 2
    THEN [r EXCEPT !.run_calls = @ + 1]
    ELSE Fail(r, "run", RunFailureDetail(error_msg))

\* The except block of lines 120-131: the canned response when the message
\* holds the marker, the propagated failure otherwise; agent.run is not
\* called again.
OnRunError(r, error_msg) ==
  IF IsCeilingExceeded(error_msg)
    THEN Respond(r, "canned", CannedApology)
    ELSE Fail(r, "run", RunFailureDetail(error_msg))

\* Mutant of HistoryOnError: the user's entry is appended before the run.
HistoryOnErrorKeepsQuery(history, query) ==
  Append(history, [role |-> "user", content |-> query])

\* The history of the session when agent.run raises: the appends of lines
\* 112-113 follow the await inside the try and are skipped.
HistoryOnError(history, query) == history

\* os.getenv("OPENAI_API_KEY"): the process environment is outside the handler,
\* which reads it anew on every request; None when the variable is not set.
ApiKeys == {None, "sk-1"}

\* Lines 51-109: a request arrives and is handled up to the call of agent.run;
\* `limit` bounds the number of requests of a run.
ReceiveWithin(limit) ==
  /\ Len(requests) < limit
  /\ \E api_key \in ApiKeys, query \in Queries,
        session_id \in SessionIdInputs, model \in Models :
       LET r0 == NewRequest(api_key, query, session_id, model) IN
       \/ \* 1. the API key is missing
          /\ KeyMissing(api_key)
          /\ requests' = Append(requests, Fail(r0, "config", ConfigDetail))
          /\ UNCHANGED <<active_sessions, clients, agents>>
       \/ /\ ~KeyMissing(api_key)
          /\ \E g \in Draws(session_id) :
               LET local_session_id == LocalSessionId(session_id, g)
                   isNew == IsNewSession(active_sessions, local_session_id)
                   r1 == [r0 EXCEPT !.generated = g,
                                    !.local_session_id = local_session_id]
               IN
               \/ \* 2. new session, MCPClient.from_dict raises
                  /\ isNew
                  /\ \E e \in ConnectErrors :
                       requests' = Append(requests, Fail(r1, "connect", ConnectDetail(e)))
                  /\ active_sessions' = ConnectFailed(active_sessions, local_session_id)
                  /\ UNCHANGED <<clients, agents>>
               \/ \* 2. new session stored, or existing session found
                  LET clients1 == IF isNew THEN Append(clients, local_session_id)
                                           ELSE clients
                      sessions1 == IF isNew
                                     THEN Connected(active_sessions, local_session_id,
                                                    Len(clients1))
                                     ELSE active_sessions
                      session_data == sessions1[local_session_id]
                      needsAgent == NeedsAgent(session_data)
                      r2 == [r1 EXCEPT !.created = isNew]
                  IN
                  \/ \* 3. ChatOpenAI or MCPAgent raises: not caught
                     /\ needsAgent
                     /\ requests' = Append(requests, Fail(r2, "unhandled", UnhandledDetail))
                     /\ active_sessions' = sessions1
                     /\ clients' = clients1
                     /\ UNCHANGED agents
                  \/ \* 3. agent constructed or reused; 4. agent.run called
                     LET agents1 == IF needsAgent
                                      THEN Append(agents, NewAgent(session_data.client, model))
                                      ELSE agents
                         sessions2 == IF needsAgent
                                        THEN [sessions1 EXCEPT ![local_session_id].agent = Len(agents1)]
                                        ELSE sessions1
                     IN
                     /\ requests' = Append(requests,
                            [r2 EXCEPT !.pc = "running", !.ran = TRUE, !.run_calls = 1,
                                       !.made_agent = needsAgent,
                                       !.agent = sessions2[local_session_id].agent])
                     /\ active_sessions' = sessions2
                     /\ clients' = clients1
                     /\ agents' = agents1
  /\ UNCHANGED completions

\* A request arrives, within the bound of the model.
Receive == ReceiveWithin(MaxRequests)

\* Lines 109-131: agent.run of request i ends, with a result or an exception.
Complete(i) ==
  /\ requests[i].pc = "running"
  /\ LET r == requests[i]
         id == r.local_session_id
     IN
     \/ \E result \in Results :
          /\ active_sessions' =
               [active_sessions EXCEPT ![id].history = AppendTurn(@, r.query, result)]
          /\ requests' = [requests EXCEPT ![i] = Respond(r, "result", Str(result))]
     \/ \E error_msg \in ErrorMessages :
          LET r1 == [r EXCEPT !.raised = TRUE, !.error_msg = error_msg] IN
          /\ requests' = [requests EXCEPT ![i] = OnRunError(r1, error_msg)]
          /\ active_sessions' =
               [active_sessions EXCEPT ![id].history = HistoryOnError(@, r.query)]
  /\ completions' = Append(completions, i)
  /\ UNCHANGED <<clients, agents>>

Next ==
  \/ Receive
  \/ \E i \in 1..Len(requests) : Complete(i)

Spec == Init /\ [][Next]_vars

\* The state Spec reaches when its first request, for the identifier "zz",
\* stores a record and then fails to construct the agent (lines 94-99 are
\* outside every try): the session exists and its agent is still null.
InitAfterAgentFailure ==
  /\ active_sessions = Connected([k \in {} |-> NoneRef], "zz", 1)
  /\ clients = << "zz" >>
  /\ agents = << >>
  /\ requests =
       << Fail([NewRequest("sk-1", "login", "zz", "gpt-4o")
                  EXCEPT !.local_session_id = LocalSessionId("zz", None),
                         !.created = TRUE],
               "unhandled", UnhandledDetail) >>
  /\ completions = << >>

\* The requests that follow that state: MaxRequests more of them.
NextAfterAgentFailure ==
  \/ ReceiveWithin(MaxRequests + 1)
  \/ \E i \in 1..Len(requests) : Complete(i)

SpecAfterAgentFailure == InitAfterAgentFailure /\ [][NextAfterAgentFailure]_vars

-----------------------------------------------------------------------------
(* Properties of the session bookkeeping.                                  *)

\* A step that receives a request, and the request it receives.
Received == Len(requests') = Len(requests) + 1
Arrived == requests'[Len(requests')]

\* The handles of the clients constructed for session id k.
ClientsFor(cl, k) == {h \in 1..Len(cl) : cl[h] = k}

\* The handles of the agents constructed on client handle c.
AgentsOn(ag, c) == {h \in 1..Len(ag) : ag[h].client = c}

\* C1: a request with a configured API key whose resolved session identifier
\* is not a key of the store, and whose client construction succeeds, adds
\* exactly one record, under that identifier: its history is empty and its
\* agent was null when it was stored (the same request then either constructs
\* a fresh agent for it or fails to and leaves it null); every other record
\* is untouched and exactly one client is constructed.
C1_NewSessionAddsOneRecord ==
  [][ (/\ Received
       /\ Truthy(Arrived.api_key)
       /\ Arrived.kind # "connect"
       /\ Arrived.local_session_id \notin DOMAIN active_sessions)
      => LET id == Arrived.local_session_id IN
         /\ DOMAIN active_sessions' = DOMAIN active_sessions \cup {id}
         /\ Cardinality(DOMAIN active_sessions') = Cardinality(DOMAIN active_sessions) + 1
         /\ \A k \in DOMAIN active_sessions : active_sessions'[k] = active_sessions[k]
         /\ active_sessions'[id].history = << >>
         /\ clients' = Append(clients, id)
         /\ active_sessions'[id].client = Len(clients')
         /\ \/ active_sessions'[id].agent = NoneRef /\ agents' = agents
            \/ /\ Len(agents') = Len(agents) + 1
               /\ active_sessions'[id].agent = Len(agents')
         /\ Arrived.created
    ]_vars

\* C1 witness: two requests each created a record, one with the identifier
\* omitted and one with an identifier supplied but never seen.
C1_Witness ==
  /\ Len(requests) = 2
  /\ requests[1].session_id = None /\ requests[1].created
  /\ requests[2].session_id = "zz" /\ requests[2].created
  /\ Cardinality(DOMAIN active_sessions) = 2

\* C2: a stored identifier keeps its record and its client handle in every
\* step; a request that resolves to a stored identifier constructs no client;
\* so exactly one client is ever constructed per stored identifier, and it is
\* the one the record holds.
C2_ClientConstructedOnce ==
  [][ /\ \A k \in DOMAIN active_sessions :
            /\ k \in DOMAIN active_sessions'
            /\ active_sessions'[k].client = active_sessions[k].client
      /\ \A k \in DOMAIN active_sessions' :
            /\ Cardinality(ClientsFor(clients', k)) = 1
            /\ active_sessions'[k].client \in ClientsFor(clients', k)
      /\ (Received /\ Arrived.local_session_id \in DOMAIN active_sessions)
            => clients' = clients /\ ~Arrived.created
    ]_vars

\* C2 witness: the second request reuses the session_id the first response
\* returned, has run, and one client exists in total.
C2_Witness ==
  /\ Len(requests) = 2
  /\ requests[1].status = 200
  /\ requests[2].session_id = requests[1].resp_session_id
  /\ requests[2].ran
  /\ Len(clients) = 1

\* C3 as stated: whenever a request creates a record (its identifier was not
\* in the store), the identifier it is stored and answered under is one the
\* server generated.
C3_AlwaysGenerated ==
  \A i \in 1..Len(requests) :
     requests[i].created =>
        /\ requests[i].generated \in GenIds
        /\ requests[i].local_session_id = requests[i].generated

\* C3 amended: an identifier is generated only when the request carries none
\* (omitted or empty), and is then the session identifier; a non-empty
\* identifier the caller supplies is itself the session identifier, known to
\* the store or not, and nothing is generated.  A created record is stored
\* under the session identifier, and a response returns it as session_id.
C3_GeneratedOnlyWhenOmitted ==
  \A i \in 1..Len(requests) :
     LET r == requests[i] IN
     Truthy(r.api_key) =>
        /\ ~Truthy(r.session_id) =>
              r.generated \in GenIds /\ r.local_session_id = r.generated
        /\ Truthy(r.session_id) =>
              r.generated = None /\ r.local_session_id = r.session_id
        /\ r.created =>
              /\ r.local_session_id \in DOMAIN active_sessions
              /\ clients[active_sessions[r.local_session_id].client] = r.local_session_id
        /\ r.status = 200 => r.resp_session_id = r.local_session_id

\* C3 witness: one request created a record under a generated identifier and
\* another under the unknown identifier its caller supplied; both were answered.
C3_Witness ==
  /\ Len(requests) = 2
  /\ \E i, j \in 1..2 :
       /\ requests[i].created /\ requests[i].session_id = ""
       /\ requests[i].status = 200 /\ requests[i].resp_session_id \in GenIds
       /\ requests[j].created /\ requests[j].session_id = "zz"
       /\ requests[j].status = 200 /\ requests[j].resp_session_id = "zz"

\* C4: once a record holds an agent it holds that agent in every later
\* state; a request on such a record runs on that agent and constructs none;
\* no record's client ever has more than one agent constructed on it.
C4_AgentConstructedOnce ==
  [][ /\ \A k \in DOMAIN active_sessions :
            active_sessions[k].agent # NoneRef =>
               active_sessions'[k].agent = active_sessions[k].agent
      /\ \A k \in DOMAIN active_sessions' :
            Cardinality(AgentsOn(agents', active_sessions'[k].client)) <= 1
      /\ (/\ Received
          /\ Arrived.ran
          /\ Arrived.local_session_id \in DOMAIN active_sessions
          /\ active_sessions[Arrived.local_session_id].agent # NoneRef)
            => /\ agents' = agents
               /\ Arrived.agent = active_sessions[Arrived.local_session_id].agent
    ]_vars

\* C4 witness: two requests ran on the same session, on the same agent, the
\* only one constructed.
C4_Witness ==
  /\ Len(requests) = 2
  /\ requests[1].ran /\ requests[2].ran
  /\ requests[1].local_session_id = requests[2].local_session_id
  /\ requests[1].agent = requests[2].agent
  /\ requests[1].agent # NoneRef
  /\ Len(agents) = 1

\* The two history entries of a turn of request r that returned a result.
Turn(r) == << [role |-> "user", content |-> r.query],
              [role |-> "assistant", content |-> r.response] >>

\* The turns with a result on session k among the requests listed in `order`
\* (a sequence of request indices), in that order.
RECURSIVE TurnsOf(_, _, _)
TurnsOf(reqs, order, k) ==
  IF order = << >> THEN << >>
  ELSE LET r == reqs[Head(order)] IN
       (IF r.local_session_id = k /\ r.kind = "result" THEN Turn(r) ELSE << >>)
         \o TurnsOf(reqs, Tail(order), k)

\* The requests in the order in which they were received.
ArrivalOrder(reqs) == [i \in 1..Len(reqs) |-> i]

\* The number of turns on session k that returned a result.
ResultTurns(reqs, k) ==
  Cardinality({i \in 1..Len(reqs) :
                 reqs[i].local_session_id = k /\ reqs[i].kind = "result"})

\* s is a prefix of t.
IsPrefix(s, t) == Len(s) <= Len(t) /\ SubSeq(t, 1, Len(s)) = s

\* user, assistant, user, assistant, ...
Alternates(history) ==
  \A j \in 1..Len(history) :
     history[j].role = IF j % 2 = 1 THEN "user" ELSE "assistant"

\* C5 as stated: a session's history is the turns that returned a result, in
\* the order in which their requests were received.
C5_HistoryInArrivalOrder ==
  \A k \in DOMAIN active_sessions :
     active_sessions[k].history = TurnsOf(requests, ArrivalOrder(requests), k)

\* C5 amended: a session's history only grows at its end; after N turns that
\* returned a result it has 2N entries, alternating user and assistant, and
\* the pairs appear in the order in which the agent runs ended, which for
\* overlapping requests need not be the order in which they were received.
C5_HistoryInCompletionOrder ==
  [][ /\ \A k \in DOMAIN active_sessions :
            /\ k \in DOMAIN active_sessions'
            /\ IsPrefix(active_sessions[k].history, active_sessions'[k].history)
      /\ \A k \in DOMAIN active_sessions' :
            LET history == active_sessions'[k].history IN
            /\ Len(history) = 2 * ResultTurns(requests', k)
            /\ Alternates(history)
            /\ history = TurnsOf(requests', completions', k)
    ]_vars

\* C5 witness: two overlapping requests on one session both returned a
\* result, the second received ending first, so the history holds its turn
\* first; the two turns differ.
C5_Witness ==
  /\ Len(requests) = 2
  /\ requests[1].local_session_id = requests[2].local_session_id
  /\ requests[1].kind = "result" /\ requests[2].kind = "result"
  /\ requests[1].response # requests[2].response
  /\ completions = <<2, 1>>
  /\ active_sessions[requests[1].local_session_id].history
        = Turn(requests[2]) \o Turn(requests[1])

\* C6: a request received while the API key is not configured ends at once
\* with status 500 and the configuration detail; the store, the clients and
\* the agents are as before and the agent is not run.
C6_MissingKeyFailsFirst ==
  [][ (Received /\ ~Truthy(Arrived.api_key))
      => /\ Arrived.pc = "done"
         /\ Arrived.status = 500
         /\ Arrived.detail = ConfigDetail
         /\ ~Arrived.ran /\ ~Arrived.created /\ Arrived.agent = NoneRef
         /\ UNCHANGED <<active_sessions, clients, agents, completions>>
    ]_vars

\* C6 witness: a request naming an existing session (one that holds an agent
\* and a history) met a missing key and failed with the configuration error.
C6_Witness ==
  /\ Len(requests) = 2
  /\ requests[1].kind = "result"
  /\ requests[2].session_id = requests[1].resp_session_id
  /\ ~Truthy(requests[2].api_key)
  /\ requests[2].status = 500 /\ requests[2].detail = ConfigDetail

\* C7: a request whose client construction fails ends with status 500 and
\* the connection detail; the store is unchanged and holds no record under
\* the request's session identifier.
C7_ConnectFailureStoresNothing ==
  [][ (Received /\ Arrived.kind = "connect")
      => /\ Arrived.pc = "done"
         /\ Arrived.status = 500
         /\ \E e \in ConnectErrors : Arrived.detail = ConnectDetail(e)
         /\ active_sessions' = active_sessions
         /\ Arrived.local_session_id \notin DOMAIN active_sessions'
         /\ ~Arrived.ran
    ]_vars

\* C7 witness: with one session stored, a request for another identifier
\* failed to connect, and the store holds the first session only.
C7_Witness ==
  /\ Len(requests) = 2
  /\ requests[1].created
  /\ requests[2].kind = "connect"
  /\ requests[2].local_session_id = "zz"
  /\ DOMAIN active_sessions = {requests[1].local_session_id}

\* C8: a request whose agent run raised an error whose message contains
\* "Recursion limit" is answered with status 200, the canned apology as
\* response and the session's identifier as session_id.
C8_CeilingExceededIsRecovered ==
  \A i \in 1..Len(requests) :
     LET r == requests[i] IN
     (r.raised /\ Contains(r.error_msg, Marker))
       => /\ r.pc = "done"
          /\ r.status = 200
          /\ r.response = CannedApology
          /\ r.resp_session_id = r.local_session_id
          /\ r.resp_session_id \in DOMAIN active_sessions
          /\ r.detail = << >>

\* C8 witness: a run failed with a message that holds the marker after other
\* text, and the request was answered with the apology.
C8_Witness ==
  \E i \in 1..Len(requests) :
     /\ requests[i].raised
     /\ Contains(requests[i].error_msg, Marker)
     /\ Head(requests[i].error_msg) # Head(Marker)
     /\ requests[i].status = 200

\* C9: a request whose agent run raised an error whose message does not
\* contain "Recursion limit" fails with status 500 and that message as
\* detail, and carries no response.
C9_OtherFailurePropagates ==
  \A i \in 1..Len(requests) :
     LET r == requests[i] IN
     (r.raised /\ ~Contains(r.error_msg, Marker))
       => /\ r.pc = "done"
          /\ r.status = 500
          /\ r.detail = r.error_msg
          /\ r.response = None
          /\ r.resp_session_id = None

\* C9 witness: a run failed with "recursion limit", which misses the marker
\* by case, and the request failed with status 500.
C9_Witness ==
  \E i \in 1..Len(requests) :
     /\ requests[i].raised
     /\ ~Contains(requests[i].error_msg, Marker)
     /\ requests[i].status = 500

\* C10: every record of the store holds a client, the one constructed for
\* its key; its agent is null only as long as no request has run the agent
\* on that session, and is otherwise an agent constructed on its client.
C10_StoredRecordHasClient ==
  \A k \in DOMAIN active_sessions :
     LET record == active_sessions[k] IN
     /\ record.client # NoneRef
     /\ record.client \in 1..Len(clients)
     /\ clients[record.client] = k
     /\ record.agent = NoneRef =>
           \A i \in 1..Len(requests) :
              requests[i].local_session_id = k => ~requests[i].ran
     /\ record.agent # NoneRef =>
           /\ record.agent \in 1..Len(agents)
           /\ agents[record.agent].client = record.client
           /\ \E i \in 1..Len(requests) :
                 requests[i].local_session_id = k /\ requests[i].ran

\* C10 witness: the store holds a record whose agent is still null (its
\* construction failed) and a record whose agent a first turn constructed.
C10_Witness ==
  \E k1, k2 \in DOMAIN active_sessions :
     /\ active_sessions[k1].agent = NoneRef
     /\ active_sessions[k2].agent # NoneRef
     /\ active_sessions[k1].client # NoneRef
     /\ active_sessions[k2].client # NoneRef

\* How many times request i occurs in the sequence `order`.
Occurrences(order, i) == Cardinality({j \in 1..Len(order) : order[j] = i})

\* C11: no step constructs more than one client, and only the step that
\* receives a request constructs one; a request calls agent.run at most once;
\* a run that raised has ended the request in exactly one outcome, the canned
\* response or the propagated failure, and the outcome of a request that has
\* ended never changes.
C11_NoRetries ==
  [][ /\ Len(clients') <= Len(clients) + 1
      /\ ~Received => clients' = clients
      /\ \A i \in 1..Len(requests') :
            LET r == requests'[i] IN
            /\ r.run_calls <= 1
            /\ Occurrences(completions', i) <= r.run_calls
            /\ r.raised =>
                  /\ r.pc = "done"
                  /\ Occurrences(completions', i) = 1
                  /\ \/ r.kind = "canned" /\ r.status = 200
                     \/ r.kind = "run" /\ r.status = 500
      /\ \A i \in 1..Len(requests) :
            requests[i].pc = "done" => requests'[i] = requests[i]
    ]_vars

\* C11 witness: one run ended in the canned response and another in the
\* propagated failure, each after a single call of agent.run.
C11_Witness ==
  /\ Len(requests) = 2
  /\ requests[1].raised /\ requests[1].kind = "canned" /\ requests[1].run_calls = 1
  /\ requests[2].raised /\ requests[2].kind = "run" /\ requests[2].run_calls = 1
  /\ Len(completions) = 2

\* The requests on session k whose agent run has not ended.
InFlight(reqs, k) ==
  {i \in 1..Len(reqs) : reqs[i].local_session_id = k /\ reqs[i].pc = "running"}

\* A step that receives a request for the identifier of a record created by
\* a request that is still in flight: two requests for one new identifier
\* overlap in time.
OverlapsCreator ==
  /\ Received
  /\ Truthy(Arrived.api_key)
  /\ \E i \in InFlight(requests, Arrived.local_session_id) : requests[i].created

\* C12 as stated: the later of two overlapping requests for one new
\* identifier also finds the identifier absent and creates a second record,
\* with a second client, that replaces the first.
C12_ResolveRaceReplacesRecord ==
  [][ OverlapsCreator
      => /\ Arrived.created
         /\ Len(clients') = Len(clients) + 1
         /\ active_sessions'[Arrived.local_session_id].client = Len(clients')
    ]_vars

\* C12 amended: the lookup and the insertion of lines 59-83 run without
\* yielding, so of two overlapping requests for one new identifier the one
\* handled first creates the record and the other finds it: the later one
\* creates nothing, constructs no client, and the record keeps its client
\* and its history; no identifier ever has two clients constructed for it.
C12_NoResolveRace ==
  [][ /\ OverlapsCreator
         => LET k == Arrived.local_session_id IN
            /\ ~Arrived.created
            /\ clients' = clients
            /\ DOMAIN active_sessions' = DOMAIN active_sessions
            /\ active_sessions'[k].client = active_sessions[k].client
            /\ active_sessions'[k].history = active_sessions[k].history
      /\ \A h1, h2 \in 1..Len(clients') : clients'[h1] = clients'[h2] => h1 = h2
    ]_vars

\* C12 witness: two requests carry the same identifier, unknown when the
\* first arrived; the second arrived while the first was still running, and
\* one client exists.
C12_Witness ==
  /\ Len(requests) = 2
  /\ requests[1].session_id = "zz" /\ requests[2].session_id = "zz"
  /\ requests[1].created /\ requests[1].pc = "running"
  /\ requests[2].ran /\ ~requests[2].created
  /\ Len(clients) = 1

\* A step that receives a request for a session on which a request that
\* constructed the session's agent is still in flight: two requests on one
\* session whose agent was null overlap in time.
OverlapsAgentBuilder ==
  /\ Received
  /\ Truthy(Arrived.api_key)
  /\ \E i \in InFlight(requests, Arrived.local_session_id) : requests[i].made_agent

\* C13 as stated: the later of two overlapping requests on a session whose
\* agent was null also finds it null and constructs a second agent, so that
\* the two requests run on different agents.
C13_AgentRaceBuildsTwo ==
  [][ OverlapsAgentBuilder
      => /\ Len(agents') = Len(agents) + 1
         /\ \E i \in InFlight(requests, Arrived.local_session_id) :
               requests[i].made_agent /\ Arrived.agent # requests[i].agent
    ]_vars

\* C13 amended: the test and the assignment of lines 93-99 run without
\* yielding, so of two overlapping requests on a session whose agent was null
\* the one handled first constructs the agent and the other finds it: the
\* later one constructs none and runs on the same agent; no record's client
\* ever has two agents constructed on it.
C13_NoAgentRace ==
  [][ /\ OverlapsAgentBuilder
         => LET k == Arrived.local_session_id IN
            /\ agents' = agents
            /\ ~Arrived.made_agent
            /\ Arrived.ran
            /\ Arrived.agent = active_sessions[k].agent
            /\ active_sessions'[k].agent = active_sessions[k].agent
            /\ \A i \in InFlight(requests, k) : requests[i].agent = Arrived.agent
      /\ \A h1, h2 \in 1..Len(agents') :
            agents'[h1].client = agents'[h2].client => h1 = h2
    ]_vars

\* C13 witness: on the existing session whose agent was null, a request
\* constructed the agent and is still running when another request on that
\* session is received and runs; both run on the only agent constructed.
C13_Witness ==
  /\ Len(requests) = 3
  /\ requests[1].kind = "unhandled" /\ requests[1].created
  /\ requests[2].local_session_id = requests[1].local_session_id
  /\ requests[3].local_session_id = requests[1].local_session_id
  /\ ~requests[2].created /\ requests[2].made_agent /\ requests[2].pc = "running"
  /\ requests[3].ran /\ requests[3].agent = requests[2].agent
  /\ Len(agents) = 1

\* The state the second specification starts in is a state of Spec.
AfterAgentFailureReached ==
  /\ active_sessions = Connected([k \in {} |-> NoneRef], "zz", 1)
  /\ clients = << "zz" >>
  /\ agents = << >>
  /\ Len(requests) = 1
  /\ requests[1] = Fail([NewRequest("sk-1", "login", "zz", "gpt-4o")
                           EXCEPT !.local_session_id = "zz", !.created = TRUE],
                        "unhandled", UnhandledDetail)
  /\ completions = << >>

\* C14: a key of the store is a key of the store in every later state; the
\* set of stored identifiers only grows.
C14_KeysNeverRemoved ==
  [][ /\ DOMAIN active_sessions \subseteq DOMAIN active_sessions'
      /\ Cardinality(DOMAIN active_sessions') >= Cardinality(DOMAIN active_sessions)
    ]_vars

\* C14 witness: one request created a record and failed to construct the
\* agent, another created a record and its run failed with status 500; both
\* records are in the store.
C14_Witness ==
  /\ Len(requests) = 2
  /\ requests[1].created /\ requests[1].kind = "unhandled"
  /\ requests[2].created /\ requests[2].kind = "run" /\ requests[2].status = 500
  /\ DOMAIN active_sessions =
        {requests[1].local_session_id, requests[2].local_session_id}
  /\ Cardinality(DOMAIN active_sessions) = 2

\* C15: the step in which a request's agent run raises, whether it ends in
\* the canned response or in the propagated failure, leaves the whole store,
\* and so the session's history, as it was.
C15_FailedTurnAppendsNothing ==
  [][ \A i \in 1..Len(requests) :
        (~requests[i].raised /\ requests'[i].raised)
          => /\ requests'[i].kind \in {"canned", "run"}
             /\ active_sessions'[requests[i].local_session_id].history
                  = active_sessions[requests[i].local_session_id].history
             /\ active_sessions' = active_sessions
    ]_vars

\* C15 witness: on one session a turn returned a result and the run of
\* another request ended in the propagated failure; the history holds the two
\* entries of the first alone.
C15_Witness ==
  \E i, j \in 1..Len(requests) :
     /\ requests[i].local_session_id = requests[j].local_session_id
     /\ requests[i].kind = "result"
     /\ requests[j].raised /\ requests[j].kind = "run"
     /\ Len(active_sessions[requests[i].local_session_id].history) = 2

\* The turns of session k that returned a result, in the order in which
\* their runs ended.
ResultOrder(k) ==
  LET OnK(i) == requests[i].local_session_id = k /\ requests[i].kind = "result"
  IN SelectSeq(completions, OnK)

\* C16: in every state, overlapping requests or not, each turn of a session
\* that returned a result has its user entry and its assistant entry next to
\* each other in the history, the pairs stand in the order in which the runs
\* ended, and the history holds nothing else and misses none.
C16_PairsAdjacentInCompletionOrder ==
  \A k \in DOMAIN active_sessions :
     LET history == active_sessions[k].history
         order == ResultOrder(k)
     IN
     /\ Len(history) = 2 * Len(order)
     /\ \A p \in 1..Len(order) :
          /\ history[2 * p - 1] = [role |-> "user", content |-> requests[order[p]].query]
          /\ history[2 * p] = [role |-> "assistant", content |-> requests[order[p]].response]
     /\ \A i \in 1..Len(requests) :
          (requests[i].local_session_id = k /\ requests[i].kind = "result")
            => \E p \in 1..Len(order) : order[p] = i

\* C16 witness: two requests on one session overlapped (the one received
\* first ended last), both returned a result, and the history holds four
\* entries, the later request's answer second and the earlier one's fourth.
C16_Witness ==
  /\ Len(requests) = 2
  /\ completions = <<2, 1>>
  /\ requests[1].kind = "result" /\ requests[2].kind = "result"
  /\ requests[1].local_session_id = requests[2].local_session_id
  /\ LET history == active_sessions[requests[1].local_session_id].history IN
     /\ Len(history) = 4
     /\ history[2].content = requests[2].response
     /\ history[4].content = requests[1].response
     /\ history[2].content # history[4].content

\* The session identifier of the request a step handles: the request
\* received, or the request whose run ends.
StepSession ==
  IF Received THEN Arrived.local_session_id
  ELSE requests[completions'[Len(completions')]].local_session_id

\* C17: a step of a request that resolves to identifier A adds no key but A
\* and leaves the record of every other identifier as it was.
C17_SessionsIsolated ==
  [][ /\ \A b \in DOMAIN active_sessions :
            b # StepSession =>
               /\ b \in DOMAIN active_sessions'
               /\ active_sessions'[b] = active_sessions[b]
      /\ DOMAIN active_sessions' \ DOMAIN active_sessions \subseteq {StepSession}
    ]_vars

\* C17 witness: two sessions each hold their own client, agent and a history
\* of one turn, written by requests that overlapped.
C17_Witness ==
  /\ Len(requests) = 2
  /\ requests[1].local_session_id # requests[2].local_session_id
  /\ requests[1].kind = "result" /\ requests[2].kind = "result"
  /\ completions = <<2, 1>>
  /\ \A i \in 1..2 :
       LET record == active_sessions[requests[i].local_session_id] IN
       /\ record.client = i /\ record.agent = i
       /\ record.history = Turn(requests[i])

\* C18: an agent, once constructed, is never changed; the agent of a session
\* is bound to the model named by the request that constructed it, and every
\* request that runs on the session, whatever model it names, runs on that
\* agent.
C18_ModelOfFirstConstruction ==
  [][ /\ \A h \in 1..Len(agents) : agents'[h] = agents[h]
      /\ \A i \in 1..Len(requests') :
            LET r == requests'[i] IN
            r.ran =>
              /\ r.agent = active_sessions'[r.local_session_id].agent
              /\ r.agent \in 1..Len(agents')
              /\ r.made_agent => agents'[r.agent].model = r.model
              /\ \A j \in 1..Len(requests') :
                    (requests'[j].made_agent
                       /\ requests'[j].local_session_id = r.local_session_id)
                      => agents'[r.agent].model = requests'[j].model
    ]_vars

\* C18 witness: the first request on a session constructed the agent with
\* one model, a later request on the session names another model, and it
\* runs on the same agent, still bound to the first model.
C18_Witness ==
  /\ Len(requests) = 2
  /\ requests[1].made_agent /\ requests[2].ran /\ ~requests[2].made_agent
  /\ requests[1].local_session_id = requests[2].local_session_id
  /\ requests[1].model # requests[2].model
  /\ requests[2].agent = requests[1].agent
  /\ agents[requests[2].agent].model = requests[1].model

=============================================================================
